---- MODULE Spec2Model ----
(***************************************************************************)
(* HexboltMQ: the delayed priority queue of src/src/queue/mod.rs.         *)
(*                                                                         *)
(* The index is a BinaryHeap<Message> behind one tokio Mutex.  The heap is *)
(* modelled as a bag of messages; peek/pop expose an element that is       *)
(* greatest under Message::cmp (the heap breaks ties between elements that *)
(* compare Equal in an unspecified way, so the choice among them is        *)
(* nondeterministic).  Instants are natural numbers, advanced by tick.     *)
(* Every critical section of the code holds the lock without awaiting, so  *)
(* each is one atomic action; the clock reads that the code makes before   *)
(* it takes the lock (push, retry) are separate steps.                     *)
(***************************************************************************)
EXTENDS Integers, Sequences, FiniteSets, Bags, TLC

VARIABLES
    now,              \* the monotonic clock, Instant::now()
    messages,         \* Queue.messages, the heap, as a bag of Message
    lock,             \* the caller that holds the Mutex around the heap, 0 if none
    pc,               \* per caller: where it is inside a queue operation
    frame,            \* per caller: the locals of the operation it is inside
    held,             \* per caller: the messages pop/pop_batch returned to it
    pushed,           \* history: ids that push has inserted (unique ids only)
    acked,            \* history: ids removed or released through acknowledge (same)
    dead,             \* history: the messages handed to push_to_dead_letter
    net,              \* history: insertions made minus messages removed
    delivered,        \* history: per id, the deliveries made (where it is kept)
    last,             \* history: the call made by the step that led here
    core              \* the basic named Queue of core/mod.rs: messages, message_count

vars == <<now, messages, lock, pc, frame, held, pushed, acked, dead, net, delivered, last, core>>

----------------------------------------------------------------------------
(* Bounds of the model *)

MaxTime == 4
MaxQueue == 2
MaxTimeSeq == 2
MaxQueueSeq == 3
MaxTimeLive == 5
MaxCoreLen == 3
MaxCoreUnderflow == 2

(* sleep(Duration::from_secs(5)) of the consumer and max_retries: 5 of the *)
(* producer                                                                *)
PollInterval == 5
ProducerMaxRetries == 5

Tasks == {1, 2}
SeqTasks == {1}

(* Width of the u64 in which retry computes 2^retry_count *)
U64Bits == 64

(* Inputs of the concurrent specification.  Ids are caller-unique, and the *)
(* histories `pushed` and `acked`, which speak of ids, are kept.  The      *)
(* budgets are <<retry_count, max_retries>> of a pushed message: no retry  *)
(* allowed, one retry left, already over the ceiling, and one retry left   *)
(* whose backoff 2^64 no longer fits a u64.                                *)
Dom ==
    [ids |-> {1, 2}, contents |-> {"c"}, priorities |-> {1}, delays |-> {0, 1},
     budgets |-> {<<0, 0>>, <<0, 1>>, <<2, 1>>, <<63, 64>>},
     instants |-> {3}, batches |-> {2}, unique |-> TRUE, track |-> FALSE,
     max_time |-> MaxTime, push_until |-> MaxTime, max_queue |-> MaxQueue]

(* Inputs of the specification that follows messages through their        *)
(* deliveries: messages pushed with retry_count 0 that allow no retry or   *)
(* one; the deliveries of each id and the acknowledges that ran during a   *)
(* retry's backoff wait are kept as history.                               *)
DomAck ==
    [Dom EXCEPT !.budgets = {<<0, 0>>, <<0, 1>>}, !.track = TRUE]

(* Inputs of the specification with fair scheduling: finitely many pushes, *)
(* all made at instant 0, of messages with no retry left, one retry left,  *)
(* and one retry left whose backoff overflows; the clock runs long enough  *)
(* for the retry of a message delayed by 1 to be redelivered.              *)
DomLive ==
    [Dom EXCEPT !.budgets = {<<0, 0>>, <<0, 1>>, <<63, 64>>},
                !.max_time = MaxTimeLive, !.push_until = 0]

(* Inputs of the producer and consumer specification: the producer's       *)
(* messages have fresh ids, retry_count 0 and max_retries 5; the clock     *)
(* runs until a wait begun at instant 0 is over.                           *)
DomConsumer ==
    [Dom EXCEPT !.budgets = {<<0, ProducerMaxRetries>>},
                !.max_time = MaxTimeLive, !.push_until = MaxTimeLive]

(* Inputs of the sequential specification: the priorities and budget of    *)
(* the test suite, its delays 0 and 1 (a longer delay is a later push);    *)
(* ids are reused freely, so no history of ids is kept.                    *)
DomSeq ==
    [ids |-> {1, 2}, contents |-> {"c"}, priorities |-> {1, 10}, delays |-> {0, 1},
     budgets |-> {<<0, 3>>},
     instants |-> {1}, batches |-> {0, 1, 2, 3, 4}, unique |-> FALSE, track |-> FALSE,
     max_time |-> MaxTimeSeq, push_until |-> MaxTimeSeq, max_queue |-> MaxQueueSeq]

----------------------------------------------------------------------------
(* Message and its ordering *)

Message(id, content, priority, available_at, retry_count, max_retries) ==
    [id |-> id, content |-> content, priority |-> priority,
     available_at |-> available_at, retry_count |-> retry_count,
     max_retries |-> max_retries]

OrdCmp(x, y) == IF x < y THEN "Less" ELSE IF x = y THEN "Equal" ELSE "Greater"

Reverse(o) == IF o = "Less" THEN "Greater" ELSE IF o = "Greater" THEN "Less" ELSE "Equal"

(* cmp with the .reverse() of the availability order forgotten *)
cmpNoReverse(self, other) ==
    LET other_order == OrdCmp(self.available_at, other.available_at)
    IN  IF other_order = "Equal"
        THEN OrdCmp(other.priority, self.priority)
        ELSE other_order

(* cmp with the priority compared first and the availability second *)
cmpPriorityFirst(self, other) ==
    LET priority_order == OrdCmp(self.priority, other.priority)
    IN  IF priority_order = "Equal"
        THEN Reverse(OrdCmp(self.available_at, other.available_at))
        ELSE priority_order

(* cmp with the id as a last tie-break *)
cmpThenId(self, other) ==
    LET other_order == OrdCmp(self.available_at, other.available_at)
    IN  IF other_order = "Equal"
        THEN IF other.priority = self.priority
             THEN OrdCmp(self.id, other.id)
             ELSE OrdCmp(other.priority, self.priority)
        ELSE Reverse(other_order)

cmp(self, other) ==
    LET other_order == OrdCmp(self.available_at, other.available_at)
    IN  IF other_order = "Equal"
        THEN OrdCmp(other.priority, self.priority)
        ELSE Reverse(other_order)

eq(self, other) == self.id = other.id

----------------------------------------------------------------------------
(* BinaryHeap<Message> as a bag *)

(* a push that skips a message whose id is already indexed *)
HeapPushUnlessIndexed(heap, m) ==
    IF \E x \in BagToSet(heap) : x.id = m.id THEN heap ELSE heap (+) SetToBag({m})

HeapPush(heap, m) == heap (+) SetToBag({m})

(* a peek().cloned() in the place of pop(): the top stays in the heap *)
HeapRemoveNone(heap, m) == heap

HeapRemove(heap, m) == heap (-) SetToBag({m})

(* a len() that counts only the messages that are ready *)
HeapLenReady(heap) ==
    BagCardinality([m \in {x \in BagToSet(heap) : x.available_at <= now} |-> heap[m]])

HeapLen(heap) == BagCardinality(heap)

(* the number of elements of the heap with the given id *)
CountId(heap, message_id) ==
    LET hit == {m \in BagToSet(heap) : m.id = message_id}
    IN  BagCardinality([m \in hit |-> heap[m]])

(* peek: the elements the max-heap may expose as its greatest *)
HeapPeek(heap) ==
    {m \in BagToSet(heap) : \A x \in BagToSet(heap) : cmp(x, m) # "Greater"}

(* a remove-by-id that stops at the first match *)
HeapRemoveFirstId(heap, message_id) ==
    LET hit == {m \in BagToSet(heap) : m.id = message_id}
    IN  IF hit = {} THEN heap ELSE heap (-) SetToBag({CHOOSE m \in hit : TRUE})

(* a retain with the predicate inverted: message.id == message_id *)
HeapRetainOnlyId(heap, message_id) ==
    LET kept == {m \in BagToSet(heap) : m.id = message_id}
    IN  [m \in kept |-> heap[m]]

(* retain(|message| keep(message)) *)
HeapRetainNotId(heap, message_id) ==
    LET kept == {m \in BagToSet(heap) : m.id # message_id}
    IN  [m \in kept |-> heap[m]]

----------------------------------------------------------------------------
(* State after Queue::new() *)

(* core::Queue::new(name): no message, count 0.  message_count is a u32;   *)
(* a value of 2^31 or more is written as that value minus 2^32, the        *)
(* integer with the same 32 bits, so that u32::MAX is -1 and adding or     *)
(* subtracting 1 modulo 2^32 is adding or subtracting 1.  `panicked` is    *)
(* the position of the caller: a panic ends it.                            *)
CoreNew == [messages |-> <<>>, message_count |-> 0, panicked |-> FALSE]

NoCall == [op |-> "none", task |-> 0, arg |-> 0, len |-> 0, ret |-> "none"]

(* The call a step makes: its name, caller and argument, the length of the *)
(* heap it found, and what it returns to its caller ("pending" while the   *)
(* call has not returned).                                                 *)
Call(op, t, arg, ret) ==
    [op |-> op, task |-> t, arg |-> arg, len |-> HeapLen(messages), ret |-> ret]

Init ==
    /\ now = 0
    /\ messages = EmptyBag
    /\ lock = 0
    /\ pc = [t \in Tasks |-> "idle"]
    /\ frame = [t \in Tasks |-> <<>>]
    /\ held = [t \in Tasks |-> <<>>]
    /\ pushed = {}
    /\ acked = {}
    /\ dead = {}
    /\ net = 0
    /\ delivered = [id \in Dom.ids |-> 0]
    /\ last = NoCall
    /\ core = CoreNew

----------------------------------------------------------------------------
(* Helpers of the model *)

RemoveAt(s, i) == [j \in 1..(Len(s) - 1) |-> IF j < i THEN s[j] ELSE s[j + 1]]

(* The locals of a retry: its message, its backoff, the end of its sleep;  *)
(* and, as history where it is kept, whether an acknowledge of its id ran  *)
(* during its sleep.                                                       *)
Local(message, backoff_delay, wake_at) ==
    [message |-> message, backoff_delay |-> backoff_delay, wake_at |-> wake_at,
     acked |-> FALSE]

(* The locals of a push: the caller's message and the delayed message.     *)
PushLocal(given, delayed_message) == [given |-> given, message |-> delayed_message]

(* the calls that own a message: a consumer in its wait owns none *)
Owning == {t \in Tasks : frame[t] # <<>> /\ pc[t] # "consume_sleep"}

InFlightIds == {frame[t][1].message.id : t \in Owning}

HeldIds(t) == {held[t][i].id : i \in 1..Len(held[t])}

InSystem ==
    HeapLen(messages) + Cardinality(Owning)
        + Len(held[1]) + Len(held[2])

----------------------------------------------------------------------------
(* The Mutex around the heap *)

(* let queue = self.messages.lock().await; ... } : the caller gets the     *)
(* lock when no other caller holds it, and the guard is dropped where the  *)
(* method returns, with no await in between, so the lock is free again     *)
(* when the step is over.                                                  *)
Locked(t) == lock \in {0, t} /\ lock' = 0

(* a retry that takes the lock before its sleep *)
retry_lock_first(t, holder) == t

(* retry takes the lock after its sleep: entering the wait it holds what   *)
(* it held, nothing.                                                       *)
retry_wait_lock(t, holder) == holder

----------------------------------------------------------------------------
(* The clock *)

tick(D) ==
    /\ now < D.max_time
    /\ now' = now + 1
    /\ last' = NoCall
    /\ UNCHANGED <<messages, lock, pc, frame, held, pushed, acked, dead, net, delivered>>
    /\ UNCHANGED core

----------------------------------------------------------------------------
(* Queue::push *)

(* let available_at = Instant::now() + delay;                              *)
(* let delayed_message = Message { available_at, ..message };              *)
push_begin(t, D) ==
    /\ pc[t] = "idle"
    /\ InSystem < D.max_queue
    /\ now <= D.push_until
    /\ \E id \in D.ids, content \in D.contents, priority \in D.priorities,
          budget \in D.budgets, instant \in D.instants, delay \in D.delays :
          LET message == Message(id, content, priority, instant, budget[1], budget[2])
              available_at == now + delay
              delayed_message == [message EXCEPT !.available_at = available_at]
          IN  /\ D.unique => id \notin (pushed \cup InFlightIds)
              /\ pc' = [pc EXCEPT ![t] = "push_lock"]
              /\ frame' = [frame EXCEPT ![t] = <<PushLocal(message, delayed_message)>>]
              /\ last' = Call("push_call", t, delay, "pending")
    /\ UNCHANGED <<now, messages, lock, held, pushed, acked, dead, net, delivered>>
    /\ UNCHANGED core

(* let mut queue = self.messages.lock().await; queue.push(..); Ok(())      *)
push_insert(t, D) ==
    /\ pc[t] = "push_lock"
    /\ Locked(t)
    /\ LET delayed_message == frame[t][1].message
       IN  /\ messages' = HeapPush(messages, delayed_message)
           /\ pushed' = IF D.unique
                        THEN pushed \cup {delayed_message.id} ELSE pushed
           /\ last' = Call("push", t, delayed_message.id, "Ok")
    /\ pc' = [pc EXCEPT ![t] = "idle"]
    /\ frame' = [frame EXCEPT ![t] = <<>>]
    /\ net' = net + 1
    /\ UNCHANGED <<now, held, acked, dead, delivered>>
    /\ UNCHANGED core

----------------------------------------------------------------------------
(* Queue::pop *)

(* the readiness test one instant too early *)
ReadyEarly(top_message, instant) == top_message.available_at <= instant + 1

(* the readiness test left out *)
ReadyAlways(top_message, instant) == TRUE

(* the readiness test with < for <= *)
ReadyStrict(top_message, instant) == top_message.available_at < instant

(* top_message.available_at <= Instant::now() *)
Ready(top_message, instant) == top_message.available_at <= instant

(* The outcomes of one pop on `queue` at `instant`: what it returns (a     *)
(* sequence of 0 or 1 message) and the heap it leaves.                     *)
PopOutcomes(queue, instant) ==
    IF queue = EmptyBag
    THEN {[out |-> <<>>, queue |-> queue]}
    ELSE {IF Ready(top_message, instant)
          THEN [out |-> <<top_message>>, queue |-> HeapRemove(queue, top_message)]
          ELSE [out |-> <<>>, queue |-> queue] : top_message \in HeapPeek(queue)}

(* The values pop can return on `queue` at `instant`:                      *)
(* Result<Option<Message>, QueueError>, here always Ok, of Some(message)   *)
(* or None.                                                                *)
PopReturn(result, out) == [result |-> result, option |-> out]

PopReturns(queue, instant) ==
    {PopReturn("Ok", r.out) : r \in PopOutcomes(queue, instant)}

(* the deliveries counted, with those of the messages of `out` added       *)
Deliver(out) ==
    [id \in DOMAIN delivered |->
        delivered[id] + Cardinality({i \in 1..Len(out) : out[i].id = id})]

(* A caller polls once it has handed back what it holds.                   *)
pop(t, D) ==
    /\ pc[t] = "idle"
    /\ held[t] = <<>>
    /\ Locked(t)
    /\ \E r \in PopOutcomes(messages, now) :
          /\ messages' = r.queue
          /\ held' = [held EXCEPT ![t] = r.out]
          /\ net' = net - Len(r.out)
          /\ delivered' = IF D.track THEN Deliver(r.out) ELSE delivered
          /\ last' = Call("pop", t, 0, "Ok")
    /\ UNCHANGED <<now, pc, frame, pushed, acked, dead>>
    /\ UNCHANGED core

----------------------------------------------------------------------------
(* Queue::pop_batch *)

RECURSIVE BatchLoopOneMore(_, _, _, _)
(* the loop with batch.len() <= batch_size *)
BatchLoopOneMore(queue, batch, batch_size, instant) ==
    IF Len(batch) <= batch_size
    THEN IF queue # EmptyBag
         THEN UNION {IF Ready(top_message, instant)
                     THEN BatchLoopOneMore(HeapRemove(queue, top_message),
                                           Append(batch, top_message), batch_size, instant)
                     ELSE {[out |-> batch, queue |-> queue]}
                     : top_message \in HeapPeek(queue)}
         ELSE {[out |-> batch, queue |-> queue]}
    ELSE {[out |-> batch, queue |-> queue]}

RECURSIVE BatchLoop(_, _, _, _)
(* while batch.len() < batch_size { peek; ready => pop, push; else break } *)
BatchLoop(queue, batch, batch_size, instant) ==
    IF Len(batch) < batch_size
    THEN IF queue # EmptyBag
         THEN UNION {IF Ready(top_message, instant)
                     THEN BatchLoop(HeapRemove(queue, top_message),
                                    Append(batch, top_message), batch_size, instant)
                     ELSE {[out |-> batch, queue |-> queue]}
                     : top_message \in HeapPeek(queue)}
         ELSE {[out |-> batch, queue |-> queue]}
    ELSE {[out |-> batch, queue |-> queue]}

pop_batch(t, D) ==
    /\ pc[t] = "idle"
    /\ held[t] = <<>>
    /\ Locked(t)
    /\ \E batch_size \in D.batches :
       \E r \in BatchLoop(messages, <<>>, batch_size, now) :
          /\ messages' = r.queue
          /\ held' = [held EXCEPT ![t] = r.out]
          /\ net' = net - Len(r.out)
          /\ delivered' = IF D.track THEN Deliver(r.out) ELSE delivered
          /\ last' = Call("pop_batch", t, batch_size, "Ok")
    /\ UNCHANGED <<now, pc, frame, pushed, acked, dead>>
    /\ UNCHANGED core

----------------------------------------------------------------------------
(* Queue::acknowledge *)

(* queue.retain(|message| message.id != message_id); Ok(())                *)
(* The caller is done with the copies it holds of that id.                 *)
acknowledge(t, D) ==
    /\ pc[t] = "idle"
    /\ Locked(t)
    /\ \E message_id \in D.ids :
          /\ messages' = HeapRetainNotId(messages, message_id)
          /\ held' = [held EXCEPT ![t] = SelectSeq(held[t], LAMBDA m : m.id # message_id)]
          /\ acked' = IF D.unique /\ (messages' # messages \/ message_id \in HeldIds(t))
                      THEN acked \cup {message_id} ELSE acked
          /\ net' = net - CountId(messages, message_id)
          /\ frame' = [u \in Tasks |->
                          IF D.track /\ pc[u] = "retry_sleep"
                                /\ frame[u][1].message.id = message_id
                          THEN <<[frame[u][1] EXCEPT !.acked = TRUE]>>
                          ELSE frame[u]]
          /\ last' = Call("acknowledge", t, message_id, "Ok")
    /\ UNCHANGED <<now, pc, pushed, dead, delivered>>
    /\ UNCHANGED core

----------------------------------------------------------------------------
(* Queue::size *)

(* let queue = self.messages.lock().await; Ok(queue.len())                 *)
(* The call is recorded with the length it returns.                        *)
size(t) ==
    /\ pc[t] = "idle"
    /\ Locked(t)
    /\ last' = Call("size", t, HeapLen(messages), "Ok")
    /\ UNCHANGED <<now, messages, pc, frame, held, pushed, acked, dead, net, delivered>>
    /\ UNCHANGED core

----------------------------------------------------------------------------
(* Queue::retry and Queue::push_to_dead_letter *)

(* 2u64.pow(retry_count): the multiplication overflows from 2^64 on; a     *)
(* build with overflow checks panics there, one without wraps to 0.        *)
(* retry_count is a u8 below max_retries <= 255 when it is incremented.    *)
PowOverflows(retry_count) == retry_count >= U64Bits

Backoff(retry_count) == IF PowOverflows(retry_count) THEN 0 ELSE 2 ^ retry_count

(* push_to_dead_letter only prints the message and returns Ok(()): it     *)
(* records it nowhere.  `dead` is the history of the messages it was given.*)
push_to_dead_letter(message) == dead' = dead \cup {message}

(* The messages the Queue keeps: its only field is the heap `messages`;    *)
(* there is no dead-letter collection, file or channel.                    *)
Recorded == BagToSet(messages)

(* a push_to_dead_letter that reports the failure to record *)
DeadLetterResultErr(message) == "Err"

(* what push_to_dead_letter returns *)
DeadLetterResult(message) == "Ok"

(* self.push_to_dead_letter(message).await?; return Ok(());                *)
Try(result) == IF result = "Ok" THEN "Ok" ELSE result

(* the ceiling test with > for >= *)
ExhaustedStrict(message) == message.retry_count > message.max_retries

(* if message.retry_count >= message.max_retries *)
Exhausted(message) == message.retry_count >= message.max_retries

(* if retry_count >= max_retries { push_to_dead_letter(message); Ok(()) }  *)
(* else retry_count += 1; backoff_delay = 2^retry_count; sleep(..).await   *)
retry(t) ==
    /\ pc[t] = "idle"
    /\ \E i \in 1..Len(held[t]) :
          LET message == held[t][i]
              retry_count == (message.retry_count + 1) % 256
              counted == [message EXCEPT !.retry_count = retry_count]
          IN  /\ held' = [held EXCEPT ![t] = RemoveAt(held[t], i)]
              /\ IF Exhausted(message)
                 THEN /\ push_to_dead_letter(message)
                      /\ last' = Call("dead_letter", t, message.id, Try(DeadLetterResult(message)))
                      /\ UNCHANGED <<pc, frame, lock>>
                 ELSE \/ /\ PowOverflows(retry_count)
                         /\ pc' = [pc EXCEPT ![t] = "panicked"]
                         /\ last' = Call("retry_panic", t, message.id, "panic")
                         /\ UNCHANGED <<frame, dead, lock>>
                      \/ /\ pc' = [pc EXCEPT ![t] = "retry_sleep"]
                         /\ frame' = [frame EXCEPT ![t] =
                               <<Local(counted, Backoff(retry_count),
                                       now + Backoff(retry_count))>>]
                         /\ last' = Call("retry_call", t, message.id, "pending")
                         /\ lock' = retry_wait_lock(t, lock)
                         /\ UNCHANGED dead
    /\ UNCHANGED <<now, messages, pushed, acked, net, delivered>>
    /\ UNCHANGED core

(* sleep(backoff_delay) is over; new_available_at = Instant::now() +       *)
(* backoff_delay; retry_message = Message { available_at, ..message }      *)
retry_wake(t) ==
    /\ pc[t] = "retry_sleep"
    /\ now >= frame[t][1].wake_at
    /\ LET f == frame[t][1]
           new_available_at == now + f.backoff_delay
           retry_message == [f.message EXCEPT !.available_at = new_available_at]
       IN  frame' = [frame EXCEPT ![t] = <<[f EXCEPT !.message = retry_message]>>]
    /\ pc' = [pc EXCEPT ![t] = "retry_lock"]
    /\ last' = NoCall
    /\ UNCHANGED <<now, messages, lock, held, pushed, acked, dead, net, delivered>>
    /\ UNCHANGED core

(* let mut queue = self.messages.lock().await; queue.push(..); Ok(())      *)
retry_insert(t) ==
    /\ pc[t] = "retry_lock"
    /\ Locked(t)
    /\ LET retry_message == frame[t][1].message
       IN  /\ messages' = HeapPush(messages, retry_message)
           /\ last' = Call("retry", t, retry_message.id, "Ok")
    /\ pc' = [pc EXCEPT ![t] = "idle"]
    /\ frame' = [frame EXCEPT ![t] = <<>>]
    /\ net' = net + 1
    /\ UNCHANGED <<now, held, pushed, acked, dead, delivered>>
    /\ UNCHANGED core

(* The future of retry is dropped at its sleep(..).await (its task is       *)
(* aborted, a select! takes another branch, the runtime shuts down): the   *)
(* locals of the call, the message it owns among them, are dropped and     *)
(* nothing after the await runs.                                           *)
retry_cancel(t) ==
    /\ pc[t] = "retry_sleep"
    /\ pc' = [pc EXCEPT ![t] = "idle"]
    /\ frame' = [frame EXCEPT ![t] = <<>>]
    /\ last' = Call("retry_cancel", t, frame[t][1].message.id, "cancelled")
    /\ UNCHANGED <<now, messages, lock, held, pushed, acked, dead, net, delivered>>
    /\ UNCHANGED core

----------------------------------------------------------------------------
(* Specifications *)

(* Concurrent callers with caller-unique ids *)
Next ==
    \/ tick(Dom)
    \/ \E t \in Tasks :
          \/ push_begin(t, Dom)
          \/ push_insert(t, Dom)
          \/ pop(t, Dom)
          \/ pop_batch(t, Dom)
          \/ acknowledge(t, Dom)
          \/ size(t)
          \/ retry(t)
          \/ retry_wake(t)
          \/ retry_insert(t)

Spec == Init /\ [][Next]_vars

(* The same callers, whose retry calls may also be cancelled in their wait *)
NextCancel ==
    \/ Next
    \/ \E t \in Tasks : retry_cancel(t)

SpecCancel == Init /\ [][NextCancel]_vars

(* The same callers, with the acknowledges during a backoff wait recorded  *)
NextAck ==
    \/ tick(DomAck)
    \/ \E t \in Tasks :
          \/ push_begin(t, DomAck)
          \/ push_insert(t, DomAck)
          \/ pop(t, DomAck)
          \/ pop_batch(t, DomAck)
          \/ acknowledge(t, DomAck)
          \/ size(t)
          \/ retry(t)
          \/ retry_wake(t)
          \/ retry_insert(t)

SpecAck == Init /\ [][NextAck]_vars

(* Producer and Consumer on one shared Arc<Mutex<Queue>> *)

(* The tasks holding the guard of the shared queue between two steps: a    *)
(* send_message and a poll that finds a message take and drop it within    *)
(* one step; a poll that finds none keeps `locked_queue` alive until the   *)
(* end of the loop body, that is across its sleep.                         *)
QueueGuardHolders == {t \in Tasks : pc[t] = "consume_sleep"}

(* queue.lock().await returns when no other task holds the guard *)
QueueLocked(t) == QueueGuardHolders \subseteq {t}

(* the locals of send_message: the message and the delay *)
SendLocal(message, delay) == [message |-> message, delay |-> delay]

(* the locals of a consumer in its wait *)
ConsumeLocal(wake_at) == [wake_at |-> wake_at]

(* let message = Message { id: fresh, available_at: now + delay,           *)
(*                         retry_count: 0, max_retries: 5, .. }            *)
send_begin(t, D) ==
    /\ pc[t] = "idle"
    /\ InSystem < D.max_queue
    /\ \E id \in D.ids, content \in D.contents, priority \in D.priorities,
          budget \in D.budgets, delay \in D.delays :
          LET message == Message(id, content, priority, now + delay, budget[1], budget[2])
          IN  /\ id \notin (pushed \cup InFlightIds)
              /\ pc' = [pc EXCEPT ![t] = "send_lock"]
              /\ frame' = [frame EXCEPT ![t] = <<SendLocal(message, delay)>>]
              /\ last' = Call("send_call", t, delay, "pending")
    /\ UNCHANGED <<now, messages, lock, held, pushed, acked, dead, net, delivered>>
    /\ UNCHANGED core

(* let mut locked_queue = queue.lock().await;                              *)
(* locked_queue.push(message, delay).await.unwrap();                       *)
send_insert(t, D) ==
    /\ pc[t] = "send_lock"
    /\ QueueLocked(t)
    /\ Locked(t)
    /\ LET message == frame[t][1].message
           available_at == now + frame[t][1].delay
           delayed_message == [message EXCEPT !.available_at = available_at]
       IN  /\ messages' = HeapPush(messages, delayed_message)
           /\ pushed' = pushed \cup {delayed_message.id}
           /\ last' = Call("send", t, delayed_message.id, "Ok")
    /\ pc' = [pc EXCEPT ![t] = "idle"]
    /\ frame' = [frame EXCEPT ![t] = <<>>]
    /\ net' = net + 1
    /\ UNCHANGED <<now, held, acked, dead, delivered>>
    /\ UNCHANGED core

(* a task is spawned on consumer.consume(process_message) *)
consume_start(t) ==
    /\ pc[t] = "idle"
    /\ pc' = [pc EXCEPT ![t] = "consume_loop"]
    /\ last' = NoCall
    /\ UNCHANGED <<now, messages, lock, frame, held, pushed, acked, dead, net, delivered>>
    /\ UNCHANGED core

(* One pass of the loop up to its first wait:                              *)
(* let mut locked_queue = queue.lock().await;                              *)
(* if let Some(message) = locked_queue.pop().await.unwrap() {              *)
(*     process_message(&message.content); locked_queue.ack(message.id) }   *)
(* else { sleep(Duration::from_secs(5)).await }                            *)
consume_poll(t, D) ==
    /\ pc[t] = "consume_loop"
    /\ QueueLocked(t)
    /\ Locked(t)
    /\ \E r \in PopOutcomes(messages, now) :
          IF r.out # <<>>
          THEN LET message_id == r.out[1].id
               IN  /\ messages' = HeapRetainNotId(r.queue, message_id)
                   /\ acked' = acked \cup {message_id}
                   /\ net' = net - 1 - CountId(r.queue, message_id)
                   /\ delivered' = IF D.track THEN Deliver(r.out) ELSE delivered
                   /\ last' = Call("consume", t, message_id, "Ok")
                   /\ UNCHANGED <<pc, frame>>
          ELSE /\ pc' = [pc EXCEPT ![t] = "consume_sleep"]
               /\ frame' = [frame EXCEPT ![t] = <<ConsumeLocal(now + PollInterval)>>]
               /\ last' = Call("consume", t, 0, "wait")
               /\ UNCHANGED <<messages, acked, net, delivered>>
    /\ UNCHANGED <<now, held, pushed, dead>>
    /\ UNCHANGED core

(* the sleep is over; `locked_queue` is dropped at the end of the loop     *)
(* body and the loop starts again                                          *)
consume_wake(t) ==
    /\ pc[t] = "consume_sleep"
    /\ now >= frame[t][1].wake_at
    /\ pc' = [pc EXCEPT ![t] = "consume_loop"]
    /\ frame' = [frame EXCEPT ![t] = <<>>]
    /\ last' = NoCall
    /\ UNCHANGED <<now, messages, lock, held, pushed, acked, dead, net, delivered>>
    /\ UNCHANGED core

NextConsumer ==
    \/ tick(DomConsumer)
    \/ \E t \in Tasks :
          \/ send_begin(t, DomConsumer)
          \/ send_insert(t, DomConsumer)
          \/ consume_start(t)
          \/ consume_poll(t, DomConsumer)
          \/ consume_wake(t)

SpecConsumer == Init /\ [][NextConsumer]_vars

----------------------------------------------------------------------------
(* Fair scheduling.  The steps of the callers take no time: the clock      *)
(* moves on only when no caller has a step due, that is no call is at its  *)
(* lock, no sleep is over, no delivery is unanswered and no ready message  *)
(* waits for an idle consumer.                                             *)
Urgent ==
    \E t \in Tasks :
        \/ pc[t] \in {"push_lock", "retry_lock"}
        \/ pc[t] = "retry_sleep" /\ now >= frame[t][1].wake_at
        \/ pc[t] = "idle" /\ held[t] # <<>>
        \/ /\ pc[t] = "idle" /\ held[t] = <<>>
           /\ \E m \in BagToSet(messages) : m.available_at <= now

tick_live(D) == ~Urgent /\ tick(D)

NextLive ==
    \/ tick_live(DomLive)
    \/ \E t \in Tasks :
          \/ push_begin(t, DomLive)
          \/ push_insert(t, DomLive)
          \/ pop(t, DomLive)
          \/ acknowledge(t, DomLive)
          \/ retry(t)
          \/ retry_wake(t)
          \/ retry_insert(t)

(* The clock keeps advancing, every call under way is scheduled again,     *)
(* consumers keep calling pop and answer every delivery (with retry,       *)
(* unless they acknowledge first).                                         *)
Fairness ==
    /\ WF_vars(tick_live(DomLive))
    /\ \A t \in Tasks :
          /\ WF_vars(push_insert(t, DomLive))
          /\ WF_vars(pop(t, DomLive))
          /\ WF_vars(retry(t))
          /\ WF_vars(retry_wake(t))
          /\ WF_vars(retry_insert(t))

SpecLive == Init /\ [][NextLive]_vars /\ Fairness

(* The basic named Queue (core/mod.rs), one owner (&mut self) *)

(* the messages enqueued: Message { id: String, body: Vec<u8> } *)
DomCore == [ids |-> {"1", "2"}, bodies |-> {<<72, 105>>}]

CoreMessage(id, body) == [id |-> id, body |-> body]

(* self.message_count += 1 overflows at u32::MAX, self.message_count -= 1  *)
(* at 0: a build with overflow checks panics there, one without wraps.     *)
AddOverflows(message_count) == message_count = -1

SubOverflows(message_count) == message_count = 0

(* self.message_count *)
get_message_count_of(queue) == queue.message_count

(* pub fn get_message_count(&self) -> u32 *)
get_message_count(t) ==
    /\ ~core.panicked
    /\ last' = Call("get_message_count", t, get_message_count_of(core), "Ok")
    /\ UNCHANGED <<now, messages, lock, pc, frame, held, pushed, acked, dead, net, delivered, core>>

(* self.messages.push(message); self.message_count += 1; *)
enqueue(t, D) ==
    /\ ~core.panicked
    /\ Len(core.messages) < MaxCoreLen
    /\ \E id \in D.ids, body \in D.bodies :
          LET pushed_messages == Append(core.messages, CoreMessage(id, body))
          IN  IF AddOverflows(core.message_count)
              THEN \/ /\ core' = [core EXCEPT !.messages = pushed_messages,
                                               !.panicked = TRUE]
                      /\ last' = Call("enqueue", t, 0, "panic")
                   \/ /\ core' = [core EXCEPT !.messages = pushed_messages,
                                               !.message_count = 0]
                      /\ last' = Call("enqueue", t, 0, "Ok")
              ELSE /\ core' = [core EXCEPT !.messages = pushed_messages,
                                           !.message_count = @ + 1]
                   /\ last' = Call("enqueue", t, 0, "Ok")
    /\ UNCHANGED <<now, messages, lock, pc, frame, held, pushed, acked, dead, net, delivered>>

(* Vec::pop: the last element removed, None on the empty vector *)
VecPop(vec) ==
    IF vec = <<>>
    THEN [out |-> "None", vec |-> vec]
    ELSE [out |-> "Some", vec |-> SubSeq(vec, 1, Len(vec) - 1)]

(* let message = self.messages.pop(); self.message_count -= 1;             *)
(* return message;                                                         *)
dequeue(t) ==
    /\ ~core.panicked
    /\ core.message_count > -MaxCoreUnderflow
    /\ LET message == VecPop(core.messages)
       IN  IF SubOverflows(core.message_count)
           THEN \/ /\ core' = [core EXCEPT !.messages = message.vec,
                                            !.panicked = TRUE]
                   /\ last' = Call("dequeue", t, 0, "panic")
                \/ /\ core' = [core EXCEPT !.messages = message.vec,
                                            !.message_count = @ - 1]
                   /\ last' = Call("dequeue", t, 0, message.out)
           ELSE /\ core' = [core EXCEPT !.messages = message.vec,
                                        !.message_count = @ - 1]
                /\ last' = Call("dequeue", t, 0, message.out)
    /\ UNCHANGED <<now, messages, lock, pc, frame, held, pushed, acked, dead, net, delivered>>

NextCore ==
    \E t \in SeqTasks :
        \/ enqueue(t, DomCore)
        \/ dequeue(t)
        \/ get_message_count(t)

SpecCore == Init /\ [][NextCore]_vars

----------------------------------------------------------------------------
(* The comparator and the equality of Message on their own *)

(* the messages compared: every field takes two values *)
DomCmp ==
    [ids |-> {1, 2}, contents |-> {"c", "d"}, priorities |-> {1, 10},
     instants |-> {0, 1}, budgets |-> {<<0, 1>>, <<1, 3>>}]

Messages(D) ==
    {Message(id, content, priority, available_at, budget[1], budget[2]) :
        id \in D.ids, content \in D.contents, priority \in D.priorities,
        available_at \in D.instants, budget \in D.budgets}

(* caller 1 has three messages at hand, any three *)
InitCmp ==
    /\ now = 0
    /\ messages = EmptyBag
    /\ lock = 0
    /\ pc = [t \in Tasks |-> "idle"]
    /\ frame = [t \in Tasks |-> <<>>]
    /\ \E a \in Messages(DomCmp), b \in Messages(DomCmp), c \in Messages(DomCmp) :
          held = [t \in Tasks |-> IF t = 1 THEN <<a, b, c>> ELSE <<>>]
    /\ pushed = {}
    /\ acked = {}
    /\ dead = {}
    /\ net = 0
    /\ delivered = [id \in Dom.ids |-> 0]
    /\ last = NoCall
    /\ core = CoreNew

Bool(b) == IF b THEN "true" ELSE "false"

(* a.cmp(&b) for the first two messages at hand *)
cmp_call(t) ==
    /\ Len(held[t]) = 3
    /\ last' = Call("cmp", t, 0, cmp(held[t][1], held[t][2]))
    /\ UNCHANGED <<now, messages, lock, pc, frame, held, pushed, acked, dead, net, delivered>>
    /\ UNCHANGED core

(* a == b for the first two messages at hand *)
eq_call(t) ==
    /\ Len(held[t]) = 3
    /\ last' = Call("eq", t, 0, Bool(eq(held[t][1], held[t][2])))
    /\ UNCHANGED <<now, messages, lock, pc, frame, held, pushed, acked, dead, net, delivered>>
    /\ UNCHANGED core

NextCmp == \E t \in SeqTasks : cmp_call(t) \/ eq_call(t)

SpecCmp == InitCmp /\ [][NextCmp]_vars

----------------------------------------------------------------------------
(* One caller, the messages of the test suite, ids reused freely *)
NextSeq ==
    \/ tick(DomSeq)
    \/ \E t \in SeqTasks :
          \/ push_begin(t, DomSeq)
          \/ push_insert(t, DomSeq)
          \/ pop(t, DomSeq)
          \/ pop_batch(t, DomSeq)
          \/ acknowledge(t, DomSeq)
          \/ size(t)

SpecSeq == Init /\ [][NextSeq]_vars

----------------------------------------------------------------------------
(* Vocabulary of the properties *)

ReadyIn(queue, instant) == {m \in BagToSet(queue) : m.available_at <= instant}

NotReadyPart(queue, instant) ==
    [m \in {x \in BagToSet(queue) : x.available_at > instant} |-> queue[m]]

ReadyCount(queue, instant) == HeapLen(queue) - HeapLen(NotReadyPart(queue, instant))

IndexedCopies(id) ==
    BagCardinality([m \in {x \in BagToSet(messages) : x.id = id} |-> messages[m]])

HeldCopies(id) ==
    Cardinality(UNION {{<<t, i>> : i \in {j \in 1..Len(held[t]) : held[t][j].id = id}}
                          : t \in Tasks})

InRetry(t) == pc[t] \in {"retry_sleep", "retry_lock"}

RetryCopies(id) == Cardinality({t \in Tasks : InRetry(t) /\ frame[t][1].message.id = id})

Min(a, b) == IF a < b THEN a ELSE b

(* n consecutive pops on `queue` at one instant: the messages they return, *)
(* no-message results dropped, and the heap they leave                     *)
RECURSIVE SeqPops(_, _, _)
SeqPops(queue, instant, n) ==
    IF n = 0
    THEN {[out |-> <<>>, queue |-> queue]}
    ELSE UNION {{[out |-> r.out \o s.out, queue |-> s.queue]
                    : s \in SeqPops(r.queue, instant, n - 1)}
                : r \in PopOutcomes(queue, instant)}

(* the latest available_at indexed in `queue` *)
LatestIn(queue) ==
    IF queue = EmptyBag THEN 0
    ELSE CHOOSE a \in {m.available_at : m \in BagToSet(queue)} :
             \A m \in BagToSet(queue) : m.available_at <= a

(* the orders in which pops at `instant` return the messages of `queue`    *)
PopOrders(queue, instant) ==
    {r.out : r \in SeqPops(queue, instant, HeapLen(queue))}

WithoutId(s, id) == SelectSeq(s, LAMBDA m : m.id # id)

(* every message there is: indexed, held by a caller, inside a call, or    *)
(* handed to the dead-letter path                                          *)
Everywhere ==
    BagToSet(messages) \cup dead
        \cup UNION {{held[t][i] : i \in 1..Len(held[t])} : t \in Tasks}
        \cup {frame[t][1].message : t \in Owning}

(* the key the spec orders messages by *)
Key(m) == <<m.available_at, m.priority>>

(* the step is the call `op` by caller t *)
Calls(t, ops) == last'.task = t /\ last'.op \in ops

----------------------------------------------------------------------------
(* C1: whenever some indexed message is ready, pop returns a ready message *)
(* whose priority is the maximum over all ready indexed messages.          *)
C1_PopReturnsHighestPriorityReady ==
    [][\A t \in Tasks :
          (Calls(t, {"pop"}) /\ ReadyIn(messages, now) # {}) =>
              /\ Len(held'[t]) = 1
              /\ held'[t][1] \in ReadyIn(messages, now)
              /\ \A m \in ReadyIn(messages, now) : m.priority <= held'[t][1].priority]_vars

(* C2: push(message, d) called at instant t prepares and inserts a message *)
(* with available_at = t + d, and every message pop or pop_batch returns   *)
(* has available_at <= the instant of its removal.                         *)
C2_DelayGating ==
    [][\A t \in Tasks :
          /\ Calls(t, {"push_call"}) =>
                frame'[t][1].message.available_at = now + last'.arg
          /\ Calls(t, {"push"}) =>
                messages' = messages (+) SetToBag({frame[t][1].message})
          /\ Calls(t, {"pop", "pop_batch"}) =>
                \A i \in 1..Len(held'[t]) : held'[t][i].available_at <= now]_vars

(* C2 witness: a pop has just returned nothing while a pushed message      *)
(* is indexed whose delay has not elapsed.                                 *)
C2_Witness ==
    /\ last.op = "pop"
    /\ held[last.task] = <<>>
    /\ \E m \in BagToSet(messages) : m.available_at > now /\ m.retry_count = 0

(* C3: a ready indexed message is the one pop returns when every other     *)
(* ready indexed message has strictly lower priority.                      *)
C3_DueMessageDelivered ==
    [][\A t \in Tasks :
          Calls(t, {"pop"}) =>
              \A m \in ReadyIn(messages, now) :
                  (\A x \in ReadyIn(messages, now) \ {m} : x.priority < m.priority)
                      => held'[t] = <<m>>]_vars

(* C4: every pushed id is in exactly one place: indexed once, held by one  *)
(* caller, inside one retry call, acknowledged, or dead-lettered.          *)
C4_NoLossNoDuplication ==
    \A id \in pushed :
        IndexedCopies(id) + HeldCopies(id) + RetryCopies(id)
            + (IF id \in acked THEN 1 ELSE 0)
            + (IF \E m \in dead : m.id = id THEN 1 ELSE 0) = 1

(* C5: retry of a message with retry_count = max_retries - 1 goes on to    *)
(* reinsert it once with retry_count = max_retries; retry of a message     *)
(* with retry_count = max_retries dead-letters it and inserts nothing; a   *)
(* dead-lettered id is not indexed or delivered again.                     *)
C5_RetryTermination ==
    [][/\ \A t \in Tasks : \A i \in 1..Len(held[t]) :
             LET m == held[t][i]
             IN  (Calls(t, {"retry_call", "retry_panic", "dead_letter"})
                      /\ last'.arg = m.id) =>
                     /\ (m.retry_count + 1 = m.max_retries) =>
                            /\ pc'[t] = "retry_sleep"
                            /\ frame'[t][1].message.retry_count = m.max_retries
                            /\ messages' = messages
                     /\ (m.retry_count = m.max_retries) =>
                            /\ m \in dead'
                            /\ pc'[t] = "idle"
                            /\ messages' = messages
       /\ \A t \in Tasks :
             Calls(t, {"retry"}) =>
                 messages' = messages (+) SetToBag({frame[t][1].message})
       /\ \A m \in dead : IndexedCopies(m.id) = 0 /\ HeldCopies(m.id) = 0]_vars

(* C6: every message retry is about to reinsert, has reinserted or has     *)
(* dead-lettered has retry_count <= max_retries.                           *)
C6_RetryCountWithinMax ==
    /\ \A m \in dead : m.retry_count <= m.max_retries
    /\ \A t \in Tasks :
          InRetry(t) => frame[t][1].message.retry_count <= frame[t][1].message.max_retries
    /\ last.op = "retry" =>
          \A m \in BagToSet(messages) :
              m.id = last.arg => m.retry_count <= m.max_retries

(* C6 as amended: for a message handed to retry with retry_count <=        *)
(* max_retries, the message diverted is that message and the message       *)
(* reinserted has the same max_retries and retry_count one higher, still   *)
(* <= max_retries; the wait and the reinsertion leave both fields alone.   *)
C6_RetryCountWithinMaxWhenHandedSo ==
    [][\A t \in Tasks :
          /\ \A i \in 1..Len(held[t]) :
                LET m == held[t][i]
                IN  (Calls(t, {"retry_call", "dead_letter"}) /\ last'.arg = m.id
                         /\ m.retry_count <= m.max_retries) =>
                        IF last'.op = "dead_letter"
                        THEN dead' = dead \cup {m}
                        ELSE /\ frame'[t][1].message.retry_count = m.retry_count + 1
                             /\ frame'[t][1].message.max_retries = m.max_retries
                             /\ frame'[t][1].message.retry_count <= m.max_retries
          /\ (pc[t] = "retry_sleep" /\ pc'[t] = "retry_lock") =>
                /\ frame'[t][1].message.retry_count = frame[t][1].message.retry_count
                /\ frame'[t][1].message.max_retries = frame[t][1].message.max_retries
          /\ Calls(t, {"retry"}) =>
                messages' = messages (+) SetToBag({frame[t][1].message})]_vars

(* C6 witness: retry has just reinserted a message at its ceiling.         *)
C6_Witness ==
    /\ last.op = "retry"
    /\ \E m \in BagToSet(messages) :
          m.id = last.arg /\ m.retry_count = m.max_retries /\ m.retry_count > 0

(* C7: pop_batch(n) returns at most n messages, and what it returns and    *)
(* leaves is what n consecutive pops at the same instant return and leave. *)
C7_BatchIsSequentialPops ==
    [][\A t \in Tasks :
          Calls(t, {"pop_batch"}) =>
              /\ Len(held'[t]) <= last'.arg
              /\ [out |-> held'[t], queue |-> messages']
                     \in SeqPops(messages, now, last'.arg)
              /\ BatchLoop(messages, <<>>, last'.arg, now)
                     = SeqPops(messages, now, last'.arg)]_vars

(* C7 witness: a pop_batch has just returned two messages and left some.   *)
C7_Witness ==
    /\ last.op = "pop_batch"
    /\ Len(held[last.task]) = 2
    /\ messages # EmptyBag

(* C8: pop_batch(n) returns exactly min(n, R) messages, R the number of    *)
(* ready indexed messages; when it returns fewer than n none that is left  *)
(* is ready; the not-ready messages stay indexed unchanged.                *)
C8_BatchTakesAllReady ==
    [][\A t \in Tasks :
          Calls(t, {"pop_batch"}) =>
              /\ Len(held'[t]) = Min(last'.arg, ReadyCount(messages, now))
              /\ Len(held'[t]) < last'.arg => ReadyIn(messages', now) = {}
              /\ NotReadyPart(messages', now) = NotReadyPart(messages, now)]_vars

(* C8 witness: a pop_batch has just returned some messages, fewer than     *)
(* asked, and left not-ready ones behind.                                  *)
C8_Witness ==
    /\ last.op = "pop_batch"
    /\ Len(held[last.task]) > 0
    /\ Len(held[last.task]) < last.arg
    /\ messages # EmptyBag

(* C9: the messages pop_batch returns are in descending priority order.    *)
C9_BatchDescendingPriority ==
    [][\A t \in Tasks :
          Calls(t, {"pop_batch"}) =>
              \A i \in 1..(Len(held'[t]) - 1) :
                  held'[t][i].priority >= held'[t][i + 1].priority]_vars

(* C10: acknowledge(id) removes every indexed message with that id and     *)
(* returns; with none to remove it changes nothing; a second               *)
(* acknowledge(id) would change nothing.                                   *)
C10_AcknowledgeIdempotent ==
    [][\A t \in Tasks :
          Calls(t, {"acknowledge"}) =>
              /\ \A m \in BagToSet(messages') : m.id # last'.arg
              /\ (\A m \in BagToSet(messages) : m.id # last'.arg) => messages' = messages
              /\ HeapRetainNotId(messages', last'.arg) = messages'
              /\ pc'[t] = "idle"]_vars

(* C10 witness: an acknowledge has just removed two copies of its id and   *)
(* left another message indexed.                                           *)
C10_Witness ==
    /\ last.op = "acknowledge"
    /\ last.len - HeapLen(messages) = 2
    /\ messages # EmptyBag

(* C11: acknowledge(id) leaves every indexed message of another id indexed *)
(* as often as before and with the same fields, adds nothing, and the      *)
(* orders in which later pops return what remains are the orders they      *)
(* would have had with the acknowledged messages left out.                 *)
C11_AcknowledgeFrame ==
    [][\A t \in Tasks :
          Calls(t, {"acknowledge"}) =>
              /\ \A m \in BagToSet(messages) :
                    m.id # last'.arg => /\ m \in BagToSet(messages')
                                        /\ messages'[m] = messages[m]
              /\ BagToSet(messages') \subseteq BagToSet(messages)
              /\ \A instant \in {now, LatestIn(messages)} :
                    PopOrders(messages', instant)
                        = {WithoutId(o, last'.arg) : o \in PopOrders(messages, instant)}]_vars

(* C11 witness: an acknowledge has just removed a message and left two     *)
(* messages that differ in availability or priority.                       *)
C11_Witness ==
    /\ last.op = "acknowledge"
    /\ last.len > HeapLen(messages)
    /\ \E m, x \in BagToSet(messages) : cmp(m, x) = "Greater"

(* C12: of two indexed messages with equal available_at the one with the   *)
(* strictly higher priority is the greater under cmp, and no message the   *)
(* heap may expose at its top has an indexed message of equal available_at *)
(* and strictly higher priority beside it.                                 *)
C12_TieBreakHigherPriorityFirst ==
    /\ \A m, x \in BagToSet(messages) :
          (m.available_at = x.available_at /\ m.priority > x.priority)
              => cmp(m, x) = "Greater"
    /\ \A top_message \in HeapPeek(messages) :
          \A x \in BagToSet(messages) :
              x.available_at = top_message.available_at
                  => x.priority <= top_message.priority

C14_SinglePeekDecides ==
    [][\A t \in Tasks :
          (Calls(t, {"pop"}) /\ held'[t] = <<>>) =>
              /\ \A m \in BagToSet(messages) : m.available_at > now
              /\ messages' = messages]_vars

(* C14 witness: a pop has just returned nothing with two messages indexed, *)
(* of different availability, neither ready.                                *)
C14_Witness ==
    /\ last.op = "pop"
    /\ held[last.task] = <<>>
    /\ \E m, x \in BagToSet(messages) :
          m.available_at > x.available_at /\ x.available_at > now

(* C15: retry called at instant t on a message with retry_count r below    *)
(* its ceiling waits until t + 2^(r+1), and when its wait ends on time the *)
(* message it goes on to reinsert is available at t + 2^(r+1), as if it    *)
(* had been reinserted at once with available_at = t + 2^(r+1).            *)
C15_BackoffEquivalence ==
    [][\A t \in Tasks :
          /\ (Calls(t, {"retry_call"}) /\ ~PowOverflows(frame'[t][1].message.retry_count)) =>
                frame'[t][1].wake_at = now + 2 ^ frame'[t][1].message.retry_count
          /\ (pc[t] = "retry_sleep" /\ pc'[t] = "retry_lock"
                 /\ now = frame[t][1].wake_at
                 /\ ~PowOverflows(frame[t][1].message.retry_count)) =>
                frame'[t][1].message.available_at = frame[t][1].wake_at]_vars

(* C16: retry of a message with retry_count >= max_retries hands that      *)
(* message to push_to_dead_letter, leaves the index unchanged, does not    *)
(* enter the backoff wait and returns Ok at once.                          *)
C16_ExhaustedIsSuccessfulTerminal ==
    [][\A t \in Tasks : \A i \in 1..Len(held[t]) :
          LET m == held[t][i]
          IN  (Calls(t, {"retry_call", "retry_panic", "dead_letter"})
                   /\ last'.arg = m.id /\ m.retry_count >= m.max_retries) =>
                  /\ last'.op = "dead_letter"
                  /\ dead' = dead \cup {m}
                  /\ messages' = messages
                  /\ pc'[t] = "idle" /\ frame'[t] = <<>>
                  /\ last'.ret = "Ok"]_vars

(* C16 witness: retry has just dead-lettered, on its first failure, a      *)
(* message that allows no retry, and returned Ok.                          *)
C16_Witness ==
    /\ last.op = "dead_letter"
    /\ last.ret = "Ok"
    /\ \E m \in dead : m.id = last.arg /\ m.max_retries = 0 /\ m.retry_count = 0

(* C17: every call that hands a message to push_to_dead_letter either      *)
(* leaves the message recorded in the state the queue keeps, or reports    *)
(* failure to its caller: none returns Ok with the message recorded        *)
(* nowhere.                                                                *)
C17_DeadLetterNeverSilentlyDrops ==
    [][\A t \in Tasks : \A i \in 1..Len(held[t]) :
          LET m == held[t][i]
          IN  (Calls(t, {"dead_letter"}) /\ last'.arg = m.id) =>
                  \/ last'.ret # "Ok"
                  \/ m \in Recorded']_vars

(* C18: no caller holds the lock in a state where time can pass; a retry   *)
(* in its backoff wait does not hold it, and while it waits every other    *)
(* caller can take each step that needs the lock: acknowledge, size, pop   *)
(* and pop_batch when it is idle, and the insertion of its push or retry.  *)
C18_LockNeverSpansWait ==
    /\ lock = 0
    /\ \A t \in Tasks : pc[t] = "retry_sleep" =>
          /\ lock # t
          /\ \A u \in Tasks \ {t} :
                /\ pc[u] = "idle" =>
                      /\ ENABLED acknowledge(u, Dom)
                      /\ ENABLED size(u)
                      /\ held[u] = <<>> => ENABLED pop(u, Dom) /\ ENABLED pop_batch(u, Dom)
                /\ pc[u] = "push_lock" => ENABLED push_insert(u, Dom)
                /\ pc[u] = "retry_lock" => ENABLED retry_insert(u)

(* C18 witness: while one caller's retry is in its backoff wait, another   *)
(* caller's pop has just taken a message from the index.                   *)
C18_Witness ==
    \E t \in Tasks :
        /\ pc[t] = "retry_sleep"
        /\ now < frame[t][1].wake_at
        /\ last.op = "pop" /\ last.task # t
        /\ held[last.task] # <<>>

(* C19: when a retry call is cancelled in its backoff wait, the message it *)
(* was given is afterwards indexed, held by a caller or dead-lettered.     *)
C19_CancellationDoesNotLeak ==
    [][\A t \in Tasks :
          (pc[t] = "retry_sleep" /\ Calls(t, {"retry_cancel"})) =>
              LET id == frame[t][1].message.id
              IN  \/ \E m \in BagToSet(messages') : m.id = id
                  \/ \E u \in Tasks : \E i \in 1..Len(held'[u]) : held'[u][i].id = id
                  \/ \E m \in dead' : m.id = id]_vars

(* C20: with concurrent callers of push, pop, pop_batch, acknowledge and   *)
(* retry, the message a pop returns is a top of the heap as the pop found  *)
(* it, ready at that instant, and the pop removes exactly that message and *)
(* touches no other caller's messages; a batch removes exactly the         *)
(* messages it returns; a message returned to one caller is not left in   *)
(* the index and is not returned to or held by another.                    *)
C20_PopIsAtomic ==
    [][/\ \A t \in Tasks :
             /\ (Calls(t, {"pop"}) /\ held'[t] # <<>>) =>
                    /\ Len(held'[t]) = 1
                    /\ held'[t][1] \in HeapPeek(messages)
                    /\ held'[t][1].available_at <= now
                    /\ messages' (+) SetToBag({held'[t][1]}) = messages
             /\ Calls(t, {"pop_batch"}) =>
                    /\ \A i \in 1..Len(held'[t]) : held'[t][i] \in BagToSet(messages)
                    /\ HeapLen(messages') + Len(held'[t]) = HeapLen(messages)
                    /\ \A m \in BagToSet(messages') : m \in BagToSet(messages)
             /\ Calls(t, {"pop", "pop_batch"}) =>
                    /\ \A u \in Tasks \ {t} : held'[u] = held[u]
                    /\ \A i \in 1..Len(held'[t]) :
                          /\ \A m \in BagToSet(messages') : m.id # held'[t][i].id
                          /\ \A u \in Tasks \ {t} : \A j \in 1..Len(held'[u]) :
                                held'[u][j].id # held'[t][i].id
                          /\ \A j \in 1..Len(held'[t]) :
                                j # i => held'[t][j].id # held'[t][i].id]_vars

(* C20 witness: a pop has just returned a message while the other caller   *)
(* is between the two steps of a push.                                     *)
C20_Witness ==
    /\ last.op = "pop"
    /\ held[last.task] # <<>>
    /\ \E u \in Tasks \ {last.task} : pc[u] = "push_lock"

(* C21: on an empty index pop and pop_batch return no message and          *)
(* acknowledge returns, each with Ok, and the index stays empty; on a      *)
(* non-empty index whose top is not ready pop and pop_batch return no      *)
(* message with Ok and leave the index as it was.                          *)
C21_NothingToDoIsNormal ==
    [][\A t \in Tasks :
          /\ (Calls(t, {"pop", "pop_batch", "acknowledge"}) /\ messages = EmptyBag) =>
                /\ last'.ret = "Ok"
                /\ messages' = EmptyBag
                /\ last'.op \in {"pop", "pop_batch"} => held'[t] = <<>>
          /\ (Calls(t, {"pop", "pop_batch"}) /\ messages # EmptyBag
                 /\ \A top_message \in HeapPeek(messages) : top_message.available_at > now) =>
                /\ last'.ret = "Ok"
                /\ held'[t] = <<>>
                /\ messages' = messages]_vars

(* C21 witness: a pop_batch asked for messages has just returned none and  *)
(* left a non-empty index.                                                 *)
C21_Witness ==
    /\ last.op = "pop_batch"
    /\ last.arg > 0
    /\ last.ret = "Ok"
    /\ held[last.task] = <<>>
    /\ messages # EmptyBag

(* C22: push(message, delay) called at instant t prepares the caller's     *)
(* message with available_at = t + delay and every other field as given,   *)
(* whatever available_at it came with; it then inserts exactly that one    *)
(* message, also when its id is already indexed, leaves every indexed      *)
(* message in place and returns Ok.                                        *)
C22_PushInsertsOne ==
    [][\A t \in Tasks :
          /\ Calls(t, {"push_call"}) =>
                LET given == frame'[t][1].given
                    made == frame'[t][1].message
                IN  /\ made.available_at = now + last'.arg
                    /\ made.id = given.id /\ made.content = given.content
                    /\ made.priority = given.priority
                    /\ made.retry_count = given.retry_count
                    /\ made.max_retries = given.max_retries
          /\ Calls(t, {"push"}) =>
                LET made == frame[t][1].message
                IN  /\ last'.ret = "Ok"
                    /\ HeapLen(messages') = HeapLen(messages) + 1
                    /\ made \in BagToSet(messages')
                    /\ \A m \in BagToSet(messages') :
                          messages'[m] = (IF m \in BagToSet(messages) THEN messages[m] ELSE 0)
                                            + (IF m = made THEN 1 ELSE 0)
                    /\ \A m \in BagToSet(messages) : m \in BagToSet(messages')]_vars

(* C22 witness: a push has just inserted a message beside an indexed       *)
(* message of the same id, with an available_at other than the one the     *)
(* caller gave.                                                            *)
C22_Witness ==
    /\ last.op = "push"
    /\ HeapLen(messages) - last.len = 1
    /\ \E m, x \in BagToSet(messages) :
          /\ m.id = last.arg /\ x.id = last.arg /\ m # x
          /\ \A i \in DomSeq.instants : m.available_at # i /\ x.available_at # i

(* C23: the insertions made by push and retry minus the messages removed   *)
(* by pop, pop_batch and acknowledge is at every moment the number of      *)
(* indexed messages, ready or not; size returns that number with Ok,       *)
(* whatever callers hold, retry or have dead-lettered, and changes         *)
(* nothing.                                                                *)
C23_SizeIsIndexCount ==
    [][/\ net' = BagCardinality(messages')
       /\ \A t \in Tasks :
             Calls(t, {"size"}) =>
                 /\ last'.arg = net
                 /\ last'.ret = "Ok"
                 /\ UNCHANGED <<now, messages, lock, pc, frame, held, dead>>]_vars

(* C23 witness: size has just returned 1 for an index whose one message is *)
(* not ready, while another message is inside a retry call.                *)
C23_Witness ==
    /\ last.op = "size"
    /\ last.arg = 1
    /\ \A m \in BagToSet(messages) : m.available_at > now
    /\ \E t \in Tasks : InRetry(t)

(* C24: acknowledge(id) leaves no message of that id indexed, and a retry  *)
(* call that was in its backoff wait when an acknowledge of its message's  *)
(* id ran does not insert that message afterwards.                         *)
C24_AcknowledgedIsTerminal ==
    [][\A t \in Tasks :
          /\ Calls(t, {"acknowledge"}) =>
                \A m \in BagToSet(messages') : m.id # last'.arg
          /\ Calls(t, {"retry"}) =>
                ~(frame[t][1].acked /\ frame[t][1].message \in BagToSet(messages'))]_vars

C26_EveryMessageTerminates ==
    <>[](/\ messages = EmptyBag
         /\ \A t \in Tasks : pc[t] = "idle" /\ held[t] = <<>>
         /\ \A id \in pushed : id \in acked \/ \E m \in dead : m.id = id)

(* C27: every retry that passes the ceiling test computes its backoff      *)
(* without overflow: the call does not panic, and the backoff is not       *)
(* wrapped, being at least 2, the backoff of retry count 1 that every      *)
(* further retry exceeds.                                                  *)
C27_BackoffDoesNotOverflow ==
    [][\A t \in Tasks :
          Calls(t, {"retry_call", "retry_panic"}) =>
             /\ last'.ret # "panic"
             /\ frame'[t][1].backoff_delay >= 2]_vars

(* C28: while a consumer is in its wait after finding no message, it does  *)
(* not hold the guard of the shared queue: a send_message waiting for the  *)
(* queue, or another consumer at the head of its loop, can take its step.  *)
C28_ConsumerWaitsUnlocked ==
    \A t \in Tasks :
        pc[t] = "consume_sleep" =>
           \A u \in Tasks \ {t} :
              /\ pc[u] = "send_lock" => ENABLED send_insert(u, DomConsumer)
              /\ pc[u] = "consume_loop" => ENABLED consume_poll(u, DomConsumer)

(* C29: the value pop returns on a non-empty index whose top is not ready  *)
(* is none of the values it returns on an empty index.                     *)
C29_EmptyAndNoneReadyDiffer ==
    [][\A t \in Tasks :
          (Calls(t, {"pop"}) /\ messages # EmptyBag /\ held'[t] = <<>>) =>
             PopReturn(last'.ret, held'[t]) \notin PopReturns(EmptyBag, now)]_vars

(* C30: for the messages a, b, c at hand, a.cmp(b) is the reverse of       *)
(* b.cmp(a); it is Equal exactly when a and b have the same available_at   *)
(* and the same priority; it is transitive (with b.cmp(c) the same, a.cmp(c)*)
(* is that too, and a not above b, b not above c give a not above c); a    *)
(* message with the key of a compares to b as a does, whatever its id,     *)
(* content, retry_count and max_retries; and a == b exactly when their ids *)
(* are equal.                                                              *)
C30_ComparatorTotalOrder ==
    last.op \in {"cmp", "eq"} =>
       LET a == held[last.task][1]
           b == held[last.task][2]
           c == held[last.task][3]
       IN  /\ last.op = "cmp" =>
                 /\ cmp(b, a) = Reverse(last.ret)
                 /\ last.ret = "Equal" <=> Key(a) = Key(b)
                 /\ cmp(b, c) = last.ret => cmp(a, c) = last.ret
                 /\ (last.ret # "Greater" /\ cmp(b, c) # "Greater") => cmp(a, c) # "Greater"
                 /\ Key(c) = Key(a) => cmp(c, b) = last.ret
           /\ last.op = "eq" =>
                 /\ last.ret = "true" <=> a.id = b.id
                 /\ c.id = a.id => Bool(eq(c, b)) = last.ret

(* C30 witness: two messages differing in id, content, retry_count and     *)
(* max_retries have just compared Equal, and a third with the same key     *)
(* differs from both in some field.                                        *)
C30_Witness ==
    /\ last.op = "cmp"
    /\ last.ret = "Equal"
    /\ LET a == held[last.task][1]
           b == held[last.task][2]
           c == held[last.task][3]
       IN  /\ a.id # b.id /\ a.content # b.content
           /\ a.retry_count # b.retry_count /\ a.max_retries # b.max_retries
           /\ Key(c) = Key(a) /\ c # a /\ c # b

(* C31: get_message_count returns the number of stored messages after any  *)
(* enqueues and dequeues, and dequeue on an empty queue returns no message, *)
(* does not panic and leaves the count at 0.                               *)
C31_CountIsStoredMessages ==
    [][\A t \in SeqTasks :
          /\ Calls(t, {"get_message_count"}) => last'.arg = Len(core.messages)
          /\ (Calls(t, {"dequeue"}) /\ core.messages = <<>>) =>
                /\ last'.ret = "None"
                /\ ~core'.panicked
                /\ core'.message_count = 0]_vars

====
